---- MODULE Spec2Model ----
(***************************************************************************)
(* A model of the persistence layer (src/db/db.py, class Database) and of  *)
(* the valuation loop of the positions page                                *)
(* (src/AccountPages/Positions.py, PositionsPage.make_ui).                 *)
(*                                                                         *)
(* The store is the sqlite file the Database object opens: the set of      *)
(* tables present, the rows of the four tables and the AUTOINCREMENT       *)
(* counters of sqlite_sequence.  Timestamp columns are left out: no        *)
(* statement of the program reads them.  Balances and amounts are whole   *)
(* currency units in a bounded range, where REAL arithmetic (+, -, <) is   *)
(* exact; the valuation loop, which divides, is modelled with rounding     *)
(* floating-point arithmetic.  The rows of portfolios and positions come   *)
(* from the initial store only: create_portfolio raises before it writes   *)
(* and buy_position writes nothing.                                        *)
(***************************************************************************)
EXTENDS Integers, Sequences, FiniteSets, TLC

VARIABLES tables, users, portfolios, tickers, positions,
          userSeq, tickerSeq, ticker_dict, constructed, ret, page

vars == <<tables, users, portfolios, tickers, positions,
          userSeq, tickerSeq, ticker_dict, constructed, ret, page>>

store == <<tables, users, portfolios, tickers, positions, userSeq, tickerSeq>>

(***************************************************************************)
(* Bounds of the model.                                                    *)
(***************************************************************************)
MaxAmount == 1
MaxBalance == 2
MaxUserId == 3
MaxTickerId == 3
MaxRef == 3
MaxLimit == 1
MaxCurPrice == 2
MaxQuantity == 9
MaxCostQuarters == 3
FloatBits == 5

(***************************************************************************)
(* Inputs.                                                                 *)
(***************************************************************************)
Usernames == {"alice", "bob"}
Passwords == {"pw1", "pw2"}
Emails == {"None"}
Symbols == {"F", "GM", "T"}
Amounts == (0 - 1) .. MaxAmount
Prices == {1, 2}
\* A debugLimit argument: None, or an integer.
NoLimit == [none |-> TRUE, n |-> 0]
Limits == {[none |-> FALSE, n |-> l] : l \in 0 .. MaxLimit} \cup {NoLimit}

\* len(symbol): the number of characters of a ticker symbol.
SymLen(s) == IF s = "GM" THEN 2 ELSE 1

\* The display name get_ticker_dict() pairs with a symbol.
NameOf(s) == <<"name", s>>

\* bcrypt.hashpw(password, salt): a one-way tag of the password.
hashpw(pw) == <<"bcrypt", pw>>

AllTables == {"users", "portfolios", "tickers", "positions"}

NoRet == [op |-> "none", args |-> <<>>, val |-> "none"]

\* The argument default of _add_all_tickers.
debugLimit == 50
DefaultLimit == [none |-> FALSE, n |-> debugLimit]

(***************************************************************************)
(* Reference ticker lists (the keys of get_ticker_dict(), in order): the   *)
(* first symbols of a listing.  The outcomes of the Price Source: a        *)
(* closing price, or a lookup that raises.                                 *)
(***************************************************************************)
Range(f) == {f[i] : i \in DOMAIN f}

RefOrder == <<"F", "GM", "T">>

Prefix(q, n) == SubSeq(q, 1, IF n < Len(q) THEN n ELSE Len(q))

RefLists == {Prefix(RefOrder, n) : n \in 0 .. MaxRef}

FetchFail == [ok |-> FALSE, price |-> 0]
Fetched == {[ok |-> TRUE, price |-> p] : p \in Prices} \cup {FetchFail}
\* The outcomes of the lookups of the symbols of a reference list.
Fetches(ref) == [Range(ref) -> Fetched]

(***************************************************************************)
(* Database.is_init                                                        *)
(***************************************************************************)
is_init_any(tbls) == tbls \cap AllTables # {}

is_init(tbls) ==
    IF tbls \cap AllTables = {} THEN FALSE
    ELSE AllTables \subseteq tbls

(***************************************************************************)
(* Database.create_schema: CREATE TABLE IF NOT EXISTS for the four tables. *)
(***************************************************************************)
create_schema(tbls) == tbls \cup AllTables

(***************************************************************************)
(* AUTOINCREMENT: the next rowid is one more than the largest ever used.   *)
(***************************************************************************)
SetMax(S) == IF S = {} THEN 0 ELSE CHOOSE m \in S : \A x \in S : x <= m

NextId(rows, seq) == SetMax({r.id : r \in rows} \cup {seq}) + 1

(***************************************************************************)
(* Database.create_ticker on a store value: the row inserted, or the       *)
(* IntegrityError of the UNIQUE constraint answered with False.            *)
(***************************************************************************)
CreateTicker(st, symbol, name, price) ==
    IF \E t \in st.tickers : t.ticker_symbol = symbol
    THEN [tickers |-> st.tickers, seq |-> st.seq, val |-> FALSE]
    ELSE LET id == NextId(st.tickers, st.seq)
         IN [tickers |-> st.tickers \cup
                          {[id |-> id, ticker_symbol |-> symbol,
                            current_price |-> price, company_name |-> name]},
             seq |-> id, val |-> TRUE]

(***************************************************************************)
(* Database._add_all_tickers: the loop over enumerate(ticker_dict.items()) *)
(* from index i (0-based).  A failing fetch raises out of the loop.        *)
(***************************************************************************)
RECURSIVE AddAllFrom(_, _, _, _, _)
AddAllFrom(st, ref, fetch, limit, i) ==
    IF i >= Len(ref) THEN [tickers |-> st.tickers, seq |-> st.seq, val |-> "None"]
    ELSE LET tic == ref[i + 1]
         IN IF ~fetch[tic].ok
            THEN [tickers |-> st.tickers, seq |-> st.seq, val |-> "IndexError"]
            ELSE LET c == CreateTicker(st, tic, NameOf(tic), fetch[tic].price)
                 IN IF ~limit.none /\ i > limit.n
                    THEN [tickers |-> c.tickers, seq |-> c.seq, val |-> "None"]
                    ELSE AddAllFrom(c, ref, fetch, limit, i + 1)

add_all_tickers(st, ref, fetch, limit) == AddAllFrom(st, ref, fetch, limit, 0)

(***************************************************************************)
(* Database.update_ticker on a set of ticker rows, given the fetched       *)
(* price: UPDATE tickers SET current_price=? WHERE ticker_symbol=?         *)
(***************************************************************************)
UpdateTicker(tk, symbol, price) ==
    {IF t.ticker_symbol = symbol THEN [t EXCEPT !.current_price = price] ELSE t
       : t \in tk}

(***************************************************************************)
(* Database.update_all_tickers: update_ticker for each symbol of the       *)
(* reference list in order; an exception of a fetch leaves the loop.       *)
(***************************************************************************)
RECURSIVE UpdateAllFrom(_, _, _, _)
UpdateAllFrom(tk, ref, fetch, i) ==
    IF i > Len(ref) THEN [tickers |-> tk, val |-> "None"]
    ELSE IF ~fetch[ref[i]].ok THEN [tickers |-> tk, val |-> "IndexError"]
    ELSE UpdateAllFrom(UpdateTicker(tk, ref[i], fetch[ref[i]].price), ref, fetch, i + 1)

update_all(tk, ref, fetch) == UpdateAllFrom(tk, ref, fetch, 1)

(***************************************************************************)
(* Database.contains_user and Database.get_balance.  get_balance raises    *)
(* TypeError (fetchone() is None) when no row has the username.            *)
(***************************************************************************)
contains_user(us, username) == \E u \in us : u.username = username

get_balance(us, username) ==
    (CHOOSE u \in us : u.username = username).balance

\* UPDATE users SET balance = ? WHERE username = ?
SetBalanceAll(us, username, b) == {[u EXCEPT !.balance = b] : u \in us}

SetBalance(us, username, b) ==
    {IF u.username = username THEN [u EXCEPT !.balance = b] ELSE u : u \in us}

\* The test of withdrawal: old_balance - amount < 0
cannot_afford_eq(old_balance, amount) == old_balance - amount <= 0

cannot_afford(old_balance, amount) == old_balance - amount < 0

(***************************************************************************)
(* INSERT INTO users (username, password, email): the row inserted with    *)
(* the default balance, or the IntegrityError of the UNIQUE constraint.    *)
(***************************************************************************)
InsertUserReplace(us, seq, username, password, email) ==
    LET id == SetMax({r.id : r \in us} \cup {seq}) + 1
    IN [users |-> {u \in us : u.username # username} \cup
                    {[id |-> id, username |-> username, password |-> password,
                      email |-> email, balance |-> 0]},
        seq |-> id, integrity_error |-> FALSE]

InsertUser(us, seq, username, password, email) ==
    IF \E u \in us : u.username = username
    THEN [users |-> us, seq |-> seq, integrity_error |-> TRUE]
    ELSE LET id == NextId(us, seq)
         IN [users |-> us \cup
                        {[id |-> id, username |-> username, password |-> password,
                          email |-> email, balance |-> 0]},
             seq |-> id, integrity_error |-> FALSE]

(***************************************************************************)
(* Python float arithmetic, at a precision of FloatBits bits instead of    *)
(* 53.  A float is the integer number of units of 1/Scale it denotes; it   *)
(* has at most FloatBits significant bits.  Each operation yields the      *)
(* exact result rounded to the nearest float, ties to even.                *)
(***************************************************************************)
Pow2(n) == 2 ^ n

Scale == Pow2(FloatBits + 6)

Abs(x) == IF x < 0 THEN 0 - x ELSE x

\* The nonnegative rational n/d (in units) rounded at the quantum 2^g, for
\* the least g >= from that leaves at most FloatBits bits.
RECURSIVE RoundPos(_, _, _)
RoundPos(n, d, from) ==
    LET q == d * Pow2(from)
        m == n \div q
        r == n - m * q
    IN IF m >= Pow2(FloatBits) THEN RoundPos(n, d, from + 1)
       ELSE IF 2 * r > q \/ (2 * r = q /\ m % 2 = 1)
            THEN (m + 1) * Pow2(from)
            ELSE m * Pow2(from)

RoundSigned(x) ==
    IF x[1] < 0 THEN 0 - RoundPos(0 - x[1], x[2], 0) ELSE RoundPos(x[1], x[2], 0)

\* The rational n/d rounded to the nearest float (n and d evaluated once).
Round(n, d) == CHOOSE v \in {RoundSigned(x) : x \in {<<n, d>>}} : TRUE

\* float(i) of an int i
FromInt(i) == Round(i * Scale, 1)

fadd(a, b) == Round(a + b, 1)
fsub(a, b) == Round(a - b, 1)
fmul(a, b) == Round(a * b, Scale)
\* a / b for b > 0
fdiv(a, b) == Round(a * Scale, b)

(***************************************************************************)
(* PositionsPage.make_ui: the valuation of one row and the loop over       *)
(* position_data with the three running totals.  quantity is an int,       *)
(* cost_basis and cur_price are floats.                                    *)
(***************************************************************************)
avg_price(cost_basis, quantity) == fdiv(cost_basis, FromInt(quantity))

cur_value(quantity, cur_price) == fmul(FromInt(quantity), cur_price)

cur_profit_unscaled(quantity, cur_price, avg) ==
    fsub(fmul(FromInt(quantity), cur_price), avg)

cur_profit(quantity, cur_price, avg) ==
    fsub(fmul(FromInt(quantity), cur_price), fmul(FromInt(quantity), avg))

add_total(acc, cost_basis, profit, value) ==
    [acc EXCEPT !.total_cost_basis = fadd(@, cost_basis),
                !.total_profit = fadd(@, profit),
                !.total_value = fadd(@, value)]

\* The items of one row of positions_table.
RowItem(tic, quantity, cost_basis, price, avg) ==
    [tic |-> tic, quantity |-> quantity, avg_price |-> avg,
     cost_basis |-> cost_basis, cur_price |-> price,
     cur_value |-> cur_value(quantity, price),
     cur_profit |-> cur_profit(quantity, price, avg)]

RECURSIVE ValuationFrom(_, _, _, _)
ValuationFrom(position_data, prices, row, acc) ==
    IF row > Len(position_data) THEN acc
    ELSE LET tic == position_data[row].tic
             quantity == position_data[row].quantity
             cost_basis == position_data[row].cost_basis
         IN IF quantity = 0 THEN [acc EXCEPT !.exc = "ZeroDivisionError"]
            ELSE CHOOSE result \in
                   {ValuationFrom(position_data, prices, row + 1, next) :
                      next \in
                        {add_total([acc EXCEPT !.positions_table = Append(@, item)],
                                   item.cost_basis, item.cur_profit,
                                   item.cur_value) :
                           item \in
                             {RowItem(tic, quantity, cost_basis, prices[tic], avg) :
                                avg \in {avg_price(cost_basis, quantity)}}}} : TRUE

NoTotals == [positions_table |-> <<>>, total_cost_basis |-> 0,
             total_profit |-> 0, total_value |-> 0, exc |-> "None"]

\* No page is open.
NoPage == [pc |-> "none", all_positions |-> <<>>, positions_table |-> <<>>,
           total_table |-> <<>>]

\* The rows db.get_all_positions(portfolio_id) hands to the page: one row
\* per ticker symbol, in the order of the mapping.
\* cost_basis values: quarters of a unit
Costs == {Round(c * Scale, 4) : c \in 0 .. MaxCostQuarters}
CurPrices == {FromInt(c) : c \in 0 .. MaxCurPrice}
PageSymbols == <<"F", "GM">>
PositionRows == [tic : Range(PageSymbols), quantity : 0 .. MaxQuantity,
                 cost_basis : Costs]

RECURSIVE RowSeqs(_)
RowSeqs(n) ==
    IF n = 0 THEN {<<>>}
    ELSE LET shorter == RowSeqs(n - 1)
         IN shorter \cup
            {Append(q, r) : q \in {x \in shorter : Len(x) = n - 1},
                            r \in PositionRows}

AllPositions ==
    {q \in RowSeqs(Len(PageSymbols)) :
        \A i \in DOMAIN q : q[i].tic = PageSymbols[i]}

(***************************************************************************)
(* PositionsPage.make_ui, given the prices db.get_ticker_price answers.    *)
(***************************************************************************)
make_ui(prices) ==
    /\ page.pc = "new"
    /\ IF page.all_positions = <<>>
       THEN page' = [page EXCEPT !.pc = "label"]
       ELSE \E r \in {ValuationFrom(page.all_positions, prices, 1, NoTotals)} :
               IF r.exc # "None"
               THEN page' = [page EXCEPT !.pc = r.exc]
               ELSE page' = [page EXCEPT
                               !.pc = "tables",
                               !.positions_table = r.positions_table,
                               !.total_table = <<r.total_cost_basis,
                                                 r.total_value,
                                                 r.total_profit>>]
    /\ UNCHANGED <<store, ticker_dict, constructed, ret>>

(***************************************************************************)
(* The initial store: the file before the program starts.  The tables      *)
(* that exist are those a run of the schema script, possibly interrupted,  *)
(* has created, in the order of the script; a table holds no row or the    *)
(* seed rows, which are referentially consistent.                          *)
(***************************************************************************)
SeedUsers == {[id |-> 1, username |-> "alice", password |-> hashpw("pw1"),
               email |-> "None", balance |-> 1]}
SeedPortfolios == {[id |-> 1, user_id |-> 1, portfolio_name |-> "main"]}
SeedTickers == {[id |-> 1, ticker_symbol |-> "F", current_price |-> 1,
                 company_name |-> NameOf("F")]}
SeedPositions == {[portfolio_id |-> 1, ticker_id |-> 1, quantity |-> 1,
                   purchase_price |-> 1]}

NoOrphanRows(us, pf, tk, ps) ==
    /\ \A p \in pf : \E u \in us : u.id = p.user_id
    /\ \A q \in ps : /\ \E p \in pf : p.id = q.portfolio_id
                     /\ \E t \in tk : t.id = q.ticker_id

SchemaOrder == <<"users", "portfolios", "tickers", "positions">>

SchemaPrefixes == {{SchemaOrder[i] : i \in 1 .. n} : n \in 0 .. Len(SchemaOrder)}

InitStore ==
    /\ tables \in SchemaPrefixes
    /\ users \in IF "users" \in tables THEN {{}, SeedUsers} ELSE {{}}
    /\ portfolios \in IF "portfolios" \in tables THEN {{}, SeedPortfolios} ELSE {{}}
    /\ tickers \in IF "tickers" \in tables THEN {{}, SeedTickers} ELSE {{}}
    /\ positions \in IF "positions" \in tables THEN {{}, SeedPositions} ELSE {{}}
    /\ NoOrphanRows(users, portfolios, tickers, positions)
    /\ userSeq = SetMax({u.id : u \in users})
    /\ tickerSeq = SetMax({t.id : t \in tickers})
    /\ constructed = FALSE
    /\ ret = NoRet
    /\ page = NoPage

\* The accounts of a store whose reference ticker list is empty; the ticker
\* and position tables hold their seed rows wherever they can.
InitAccounts ==
    /\ InitStore
    /\ "tickers" \in tables => tickers = SeedTickers
    /\ (AllTables \subseteq tables /\ portfolios # {}) => positions = SeedPositions
    /\ ticker_dict = <<>>

\* The tickers of a store, for every reference ticker list; the other
\* tables hold their seed rows wherever the tables they refer to exist.
InitTickers ==
    /\ InitStore
    /\ "users" \in tables => users = SeedUsers
    /\ {"users", "portfolios"} \subseteq tables => portfolios = SeedPortfolios
    /\ (AllTables \subseteq tables /\ tickers # {}) => positions = SeedPositions
    /\ ticker_dict \in RefLists

(***************************************************************************)
(* Database.__init__                                                       *)
(***************************************************************************)
Construct(update_tickers, fetch) ==
    IF ~is_init(tables)
    THEN LET r == add_all_tickers([tickers |-> tickers, seq |-> tickerSeq],
                                  ticker_dict, fetch, DefaultLimit)
         IN /\ r.seq <= MaxTickerId
            /\ tables' = create_schema(tables)
            /\ tickers' = r.tickers
            /\ tickerSeq' = r.seq
            /\ constructed' = (constructed \/ r.val = "None")
            /\ ret' = [op |-> "__init__", args |-> <<update_tickers, FALSE>>,
                       val |-> r.val]
            /\ UNCHANGED <<users, portfolios, positions, userSeq, ticker_dict, page>>
    ELSE IF update_tickers
    THEN LET r == update_all(tickers, ticker_dict, fetch)
         IN /\ tickers' = r.tickers
            /\ constructed' = (constructed \/ r.val = "None")
            /\ ret' = [op |-> "__init__", args |-> <<update_tickers, TRUE>>,
                       val |-> r.val]
            /\ UNCHANGED <<tables, users, portfolios, positions, userSeq, tickerSeq,
                           ticker_dict, page>>
    ELSE /\ constructed' = TRUE
         /\ ret' = [op |-> "__init__", args |-> <<update_tickers, TRUE>>,
                    val |-> "None"]
         /\ UNCHANGED <<store, ticker_dict, page>>

(***************************************************************************)
(* Database.create_user                                                    *)
(***************************************************************************)
create_user(username, password, email) ==
    /\ constructed
    /\ LET encrypted_pw == hashpw(password)
           r == InsertUser(users, userSeq, username, encrypted_pw, email)
       IN /\ r.seq <= MaxUserId
          /\ users' = r.users
          /\ userSeq' = r.seq
          /\ ret' = [op |-> "create_user", args |-> <<username>>,
                     val |-> IF r.integrity_error THEN "False" ELSE "True"]
    /\ UNCHANGED <<tables, portfolios, tickers, positions, tickerSeq, ticker_dict, page,
                   constructed>>

(***************************************************************************)
(* Database.delete_user: DELETE FROM users WHERE username=? on a           *)
(* connection of _connect, which leaves PRAGMA foreign_keys at its         *)
(* default (off): the ON DELETE CASCADE clauses are not enforced.          *)
(***************************************************************************)
delete_user(username) ==
    /\ constructed
    /\ users' = {u \in users : u.username # username}
    /\ ret' = [op |-> "delete_user", args |-> <<username>>, val |-> "None"]
    /\ UNCHANGED <<tables, portfolios, tickers, positions, userSeq, tickerSeq,
                   ticker_dict, page, constructed>>

(***************************************************************************)
(* Database.deposit                                                        *)
(***************************************************************************)
deposit(username, amount) ==
    /\ constructed
    /\ LET old_balance == get_balance(users, username)
       IN IF ~contains_user(users, username)
          THEN /\ ret' = [op |-> "deposit", args |-> <<username, amount>>,
                          val |-> "TypeError"]
               /\ UNCHANGED users
          ELSE /\ old_balance + amount \in (0 - MaxBalance) .. MaxBalance
               /\ users' = SetBalance(users, username, old_balance + amount)
               /\ ret' = [op |-> "deposit", args |-> <<username, amount>>,
                          val |-> "True"]
    /\ UNCHANGED <<tables, portfolios, tickers, positions, userSeq, tickerSeq,
                   ticker_dict, page, constructed>>

(***************************************************************************)
(* Database.withdrawal                                                     *)
(***************************************************************************)
withdrawal(username, amount) ==
    /\ constructed
    /\ LET old_balance == get_balance(users, username)
       IN IF ~contains_user(users, username)
          THEN /\ ret' = [op |-> "withdrawal", args |-> <<username, amount>>,
                          val |-> "TypeError"]
               /\ UNCHANGED users
          ELSE IF cannot_afford(old_balance, amount)
          THEN /\ ret' = [op |-> "withdrawal", args |-> <<username, amount>>,
                          val |-> "False"]
               /\ UNCHANGED users
          ELSE /\ old_balance - amount \in (0 - MaxBalance) .. MaxBalance
               /\ users' = SetBalance(users, username, old_balance - amount)
               /\ ret' = [op |-> "withdrawal", args |-> <<username, amount>>,
                          val |-> "None"]
    /\ UNCHANGED <<tables, portfolios, tickers, positions, userSeq, tickerSeq,
                   ticker_dict, page, constructed>>

(***************************************************************************)
(* Database.create_ticker                                                  *)
(***************************************************************************)
create_ticker(symbol, name, price) ==
    /\ constructed
    /\ LET c == CreateTicker([tickers |-> tickers, seq |-> tickerSeq],
                             symbol, name, price)
       IN /\ c.seq <= MaxTickerId
          /\ tickers' = c.tickers
          /\ tickerSeq' = c.seq
          /\ ret' = [op |-> "create_ticker", args |-> <<symbol>>,
                     val |-> IF c.val THEN "True" ELSE "False"]
    /\ UNCHANGED <<tables, users, portfolios, positions, userSeq, ticker_dict, page,
                   constructed>>

(***************************************************************************)
(* Database._add_all_tickers called with an explicit debugLimit.           *)
(***************************************************************************)
add_all_tickers_call(fetch, limit) ==
    /\ constructed
    /\ LET r == add_all_tickers([tickers |-> tickers, seq |-> tickerSeq],
                                ticker_dict, fetch, limit)
       IN /\ r.seq <= MaxTickerId
          /\ tickers' = r.tickers
          /\ tickerSeq' = r.seq
          /\ ret' = [op |-> "_add_all_tickers",
                     args |-> <<limit>>,
                     val |-> r.val]
    /\ UNCHANGED <<tables, users, portfolios, positions, userSeq, ticker_dict, page,
                   constructed>>

(***************************************************************************)
(* Database.update_ticker                                                  *)
(***************************************************************************)
update_ticker(symbol, fetched) ==
    /\ constructed
    /\ IF ~fetched.ok
       THEN /\ ret' = [op |-> "update_ticker", args |-> <<symbol>>,
                       val |-> "IndexError"]
            /\ UNCHANGED tickers
       ELSE /\ tickers' = UpdateTicker(tickers, symbol, fetched.price)
            /\ ret' = [op |-> "update_ticker", args |-> <<symbol>>, val |-> "None"]
    /\ UNCHANGED <<tables, users, portfolios, positions, userSeq, tickerSeq,
                   ticker_dict, page, constructed>>

(***************************************************************************)
(* Database.update_all_tickers                                             *)
(***************************************************************************)
update_all_tickers(fetch) ==
    /\ constructed
    /\ LET r == update_all(tickers, ticker_dict, fetch)
       IN /\ tickers' = r.tickers
          /\ ret' = [op |-> "update_all_tickers", args |-> <<fetch>>,
                     val |-> r.val]
    /\ UNCHANGED <<tables, users, portfolios, positions, userSeq, tickerSeq,
                   ticker_dict, page, constructed>>

(***************************************************************************)
(* Database.delete_ticker: the parameters are the string itself, not a     *)
(* tuple, so the one placeholder is bound only by a one-character symbol;  *)
(* any other symbol raises ProgrammingError.  No cascade (see delete_user).*)
(***************************************************************************)
delete_ticker(symbol) ==
    /\ constructed
    /\ IF SymLen(symbol) = 1
       THEN /\ tickers' = {t \in tickers : t.ticker_symbol # symbol}
            /\ ret' = [op |-> "delete_ticker", args |-> <<symbol>>, val |-> "None"]
       ELSE /\ ret' = [op |-> "delete_ticker", args |-> <<symbol>>,
                       val |-> "ProgrammingError"]
            /\ UNCHANGED tickers
    /\ UNCHANGED <<tables, users, portfolios, positions, userSeq, tickerSeq,
                   ticker_dict, page, constructed>>

(***************************************************************************)
(* Database.create_portfolio: cursor.execute is given three positional     *)
(* arguments and raises TypeError before any statement runs.               *)
(***************************************************************************)
create_portfolio(user_id, portfolio_name) ==
    /\ constructed
    /\ ret' = [op |-> "create_portfolio", args |-> <<user_id, portfolio_name>>,
               val |-> "TypeError"]
    /\ UNCHANGED <<store, ticker_dict, page, constructed>>

NextAccounts ==
    \/ \E ut \in BOOLEAN, fetch \in Fetches(ticker_dict) : Construct(ut, fetch)
    \/ \E u \in Usernames, p \in Passwords, e \in Emails : create_user(u, p, e)
    \/ \E u \in Usernames : delete_user(u)
    \/ \E u \in Usernames, a \in Amounts : deposit(u, a)
    \/ \E u \in Usernames, a \in Amounts : withdrawal(u, a)
    \/ \E i \in 1 .. MaxUserId : create_portfolio(i, "main")

NextTickers ==
    \/ \E ut \in BOOLEAN, fetch \in Fetches(ticker_dict) : Construct(ut, fetch)
    \/ \E s \in Symbols, p \in Prices : create_ticker(s, NameOf(s), p)
    \/ \E fetch \in Fetches(ticker_dict), l \in Limits :
          add_all_tickers_call(fetch, l)
    \/ \E s \in Symbols, f \in Fetched : update_ticker(s, f)
    \/ \E fetch \in Fetches(ticker_dict) : update_all_tickers(fetch)
    \/ \E s \in Symbols : delete_ticker(s)

\* A positions page constructed over the rows of a portfolio.
InitPage ==
    /\ tables = AllTables
    /\ users = SeedUsers /\ portfolios = SeedPortfolios
    /\ tickers = SeedTickers /\ positions = SeedPositions
    /\ userSeq = 1 /\ tickerSeq = 1
    /\ ticker_dict = <<>>
    /\ constructed = TRUE
    /\ ret = NoRet
    /\ page \in {[NoPage EXCEPT !.pc = "new", !.all_positions = a] :
                    a \in AllPositions}

NextPage ==
    \E prices \in [{page.all_positions[i].tic : i \in DOMAIN page.all_positions}
                      -> CurPrices] : make_ui(prices)

\* The store across starts of the program and single-ticker calls.
NextInit ==
    \/ \E ut \in BOOLEAN, fetch \in Fetches(ticker_dict) : Construct(ut, fetch)
    \/ \E s \in Symbols, p \in Prices : create_ticker(s, NameOf(s), p)
    \/ \E s \in Symbols, f \in Fetched : update_ticker(s, f)
    \/ \E s \in Symbols : delete_ticker(s)

Spec == InitAccounts /\ [][NextAccounts]_vars

SpecTickers == InitTickers /\ [][NextTickers]_vars

SpecInit == InitTickers /\ [][NextInit]_vars

SpecPage == InitPage /\ [][NextPage]_vars

(***************************************************************************)
(* Properties.                                                             *)
(***************************************************************************)
Balance(us, username) == (CHOOSE u \in us : u.username = username).balance

Raised == {"TypeError", "IndexError", "ProgrammingError"}

\* C1: for an existing user u, withdrawal(u, a) applies balance := balance - a
\* and does not report failure exactly when a <= balance; otherwise it
\* reports False and every stored balance is what it was.
WithdrawalIffAffordable ==
    [][(ret'.op = "withdrawal" /\ contains_user(users, ret'.args[1])) =>
         LET u == ret'.args[1]
             a == ret'.args[2]
         IN IF a <= Balance(users, u)
            THEN /\ ret'.val = "None"
                 /\ contains_user(users', u)
                 /\ Balance(users', u) = Balance(users, u) - a
            ELSE /\ ret'.val = "False"
                 /\ users' = users]_vars

\* A withdrawal of the whole (positive) balance has been applied.
WithdrawalWitness ==
    /\ ret.op = "withdrawal"
    /\ ret.val = "None"
    /\ ret.args[2] > 0
    /\ \E u \in users : u.username = ret.args[1] /\ u.balance = 0

\* C2: every stored balance is >= 0 in every reachable state.
BalancesNonNegative == \A u \in users : u.balance >= 0

\* C3: no orphaned rows: every portfolios.user_id names an existing user and
\* every positions.portfolio_id names an existing portfolio.
NoOrphans ==
    /\ \A p \in portfolios : \E u \in users : u.id = p.user_id
    /\ \A q \in positions : \E p \in portfolios : p.id = q.portfolio_id

\* C4: create_user with a username that already exists returns False and
\* leaves every user row, and so the number of rows, unchanged.
DuplicateUserRefused ==
    [][(ret'.op = "create_user" /\ contains_user(users, ret'.args[1])) =>
         (ret'.val = "False" /\ users' = users /\ userSeq' = userSeq)]_vars

\* create_user was refused for a user whose row differs from a fresh row.
DuplicateUserWitness ==
    /\ ret.op = "create_user"
    /\ ret.val = "False"
    /\ \E u \in users : u.username = ret.args[1] /\ u.balance > 0

\* C5: for an existing user u and a >= 0, deposit(u, a) returns True, u's
\* balance becomes its previous balance plus a and every other row is
\* unchanged.
DepositAddsExactly ==
    [][(ret'.op = "deposit" /\ contains_user(users, ret'.args[1])
          /\ ret'.args[2] >= 0) =>
         LET u == ret'.args[1]
             a == ret'.args[2]
         IN /\ ret'.val = "True"
            /\ Cardinality(users') = Cardinality(users)
            /\ \A x \in users :
                  IF x.username = u
                  THEN [x EXCEPT !.balance = x.balance + a] \in users'
                  ELSE x \in users']_vars

\* A positive deposit was applied while another user holds another balance.
DepositWitness ==
    /\ ret.op = "deposit"
    /\ ret.val = "True"
    /\ ret.args[2] > 0
    /\ \E u, w \in users : /\ u.username = ret.args[1]
                           /\ w.username # u.username
                           /\ w.balance # u.balance

\* C6: a call of create_user, create_ticker, deposit or withdrawal that
\* returns hands back a boolean, True or False.
ReturnsBoolean ==
    (ret.op \in {"create_user", "create_ticker", "deposit", "withdrawal"}
       /\ ret.val \notin Raised) => ret.val \in {"True", "False"}

\* C7: the constructor called with update_tickers=False ends with the four
\* tables present and every row that existed unchanged; is_init() answered
\* True only if the four tables existed, and then nothing changes.
InitIdempotent ==
    [][(ret'.op = "__init__" /\ ret'.args[1] = FALSE) =>
         /\ AllTables \subseteq tables'
         /\ users' = users /\ portfolios' = portfolios /\ positions' = positions
         /\ tickers \subseteq tickers'
         /\ ret'.args[2] = TRUE => AllTables \subseteq tables
         /\ AllTables \subseteq tables => UNCHANGED store]_vars

\* The constructor completed a store that had some tables, users and a
\* ticker, and added tickers to it.
InitWitness ==
    /\ ret.op = "__init__"
    /\ ret.args = <<FALSE, FALSE>>
    /\ users # {}
    /\ SeedTickers \subseteq tickers
    /\ Cardinality(tickers) > 1

\* C8: after update_all_tickers, every stored symbol of the reference list
\* whose fetch succeeds holds the fetched price, also when the fetch of
\* another symbol failed.
RefreshIsolatesFailures ==
    ret.op = "update_all_tickers" =>
       \A i \in DOMAIN ticker_dict :
          LET f == ret.args[1][ticker_dict[i]]
          IN f.ok => \A t \in tickers :
                        t.ticker_symbol = ticker_dict[i] =>
                           t.current_price = f.price

RECURSIVE SumOf(_, _, _)
SumOf(items, field, n) ==
    IF n = 0 THEN 0 ELSE fadd(SumOf(items, field, n - 1), items[n][field])

TotalsAreSums ==
    /\ page.total_table[1] =
          SumOf(page.positions_table, "cost_basis", Len(page.positions_table))
    /\ page.total_table[2] =
          SumOf(page.positions_table, "cur_value", Len(page.positions_table))
    /\ page.total_table[3] =
          SumOf(page.positions_table, "cur_profit", Len(page.positions_table))

RowsValued ==
    /\ Len(page.positions_table) = Len(page.all_positions)
    /\ \A i \in DOMAIN page.positions_table :
          LET it == page.positions_table[i]
              row == page.all_positions[i]
          IN /\ it.tic = row.tic /\ it.quantity = row.quantity
             /\ it.cost_basis = row.cost_basis
             /\ it.quantity > 0
             /\ it.cur_value = Round(it.quantity * it.cur_price, 1)

\* C9 as stated: for every row of the tables the page shows, current_value
\* is quantity * current_price, current_value - profit_loss == cost_basis
\* exactly, and the totals are the sums of the rows.
ValuationIdentityExact ==
    page.pc = "tables" =>
       /\ RowsValued
       /\ \A i \in DOMAIN page.positions_table :
             LET it == page.positions_table[i]
             IN fsub(it.cur_value, it.cur_profit) = it.cost_basis
       /\ TotalsAreSums

\* C9 as amended: current_value - profit_loss equals cost_basis within
\* floating-point tolerance, 4 machine epsilons (2^(1-FloatBits)) of the
\* larger of cost_basis and current_value.
ValuationIdentityWithinTolerance ==
    page.pc = "tables" =>
       /\ RowsValued
       /\ \A i \in DOMAIN page.positions_table :
             LET it == page.positions_table[i]
                 larger == IF it.cost_basis > Abs(it.cur_value)
                           THEN it.cost_basis ELSE Abs(it.cur_value)
             IN Abs(fsub(it.cur_value, it.cur_profit) - it.cost_basis)
                   * Pow2(FloatBits - 1) <= 4 * larger
       /\ TotalsAreSums

\* Two rows were valued, one of them with a rounding error in the identity.
ValuationWitness ==
    /\ page.pc = "tables"
    /\ Len(page.positions_table) = 2
    /\ \E i \in DOMAIN page.positions_table :
          LET it == page.positions_table[i]
          IN fsub(it.cur_value, it.cur_profit) # it.cost_basis

\* C10: _add_all_tickers(debugLimit=L) on an empty ticker table, every fetch
\* succeeding, leaves min(L, size of the reference list) ticker rows.
AddAllBoundedByLimit ==
    [][(ret'.op = "_add_all_tickers" /\ ret'.val = "None" /\ tickers = {}
          /\ ~ret'.args[1].none) =>
         LET L == ret'.args[1].n
             n == Len(ticker_dict)
         IN Cardinality(tickers') = IF L < n THEN L ELSE n]_vars

====
